---- MODULE Spec2Model ----
(***************************************************************************)
(* The AKI.IO JavaScript client (class Aki): job submission, the progress  *)
(* poll loop, the cancellation register and the queued poll parameters.    *)
(*                                                                         *)
(* The repository holds two variants of the class: src/unnamed/part_000    *)
(* (variant "part_000") and the one embedded in src/README.md, which is    *)
(* the module the examples under src/js/examples require (variant          *)
(* "README").  The model carries the variant as a state variable fixed by  *)
(* Init and follows the code of the chosen variant wherever they differ.   *)
(*                                                                         *)
(* JavaScript is single-threaded: the code between two awaits runs         *)
(* atomically, so one action is one such run (a call by the user, the      *)
(* continuation after a network reply, a timer callback, a stream event).  *)
(***************************************************************************)
EXTENDS Integers, Sequences, FiniteSets, TLC

(* ------------------------------ bounds -------------------------------- *)
(* A run is explored under one of two budgets: one job followed deep, or   *)
(* several jobs on the one handle followed less deep.                      *)

\* one job: number of Aki.doAPIRequest calls made on the handle
MaxCalls == 1

\* one job: number of poll requests sent
MaxPolls == 3

\* one job: number of cancelRequest / append_progressInputParams calls
MaxUserOps == 2

\* several jobs: number of Aki.doAPIRequest calls made on the handle
MaxJobs == 2

\* several jobs: number of poll requests sent, all poll loops together
MaxJobsPolls == 2

\* several jobs: number of cancelRequest / append_progressInputParams calls
MaxJobsUserOps == 1

\* number of events one progress stream delivers
MaxStreamEvents == 1

\* number of properties of a parameter object given to stringifyObjects
MaxKeys == 2

\* number of initAPIKey calls made on the handle
MaxKeyCalls == 1

\* poll requests and user operations next to the initAPIKey calls
MaxKeyPolls == 2

MaxKeyUserOps == 1

Budgets ==
    { [calls |-> MaxCalls, polls |-> MaxPolls, userOps |-> MaxUserOps],
      [calls |-> MaxJobs, polls |-> MaxJobsPolls, userOps |-> MaxJobsUserOps] }

(* ------------------------- JavaScript values -------------------------- *)
(* A value is a tuple whose first element is its typeof-like tag, so that   *)
(* two values of different kinds are always comparable.  A string is a     *)
(* sequence of tokens (so that join and JSON.stringify can build strings), *)
(* an object is the sequence of its <<name, value>> properties in          *)
(* insertion order, an array is a sequence of values.                      *)

Undefined == <<"undefined">>

Null == <<"null">>

Bool(b) == <<"boolean", b>>

Num(n) == <<"number", n>>

Str(s) == <<"string", <<s>>>>

StrOf(toks) == <<"string", toks>>

Obj(pairs) == <<"object", pairs>>

Arr(s) == <<"array", s>>

\* the own enumerable properties of a value in enumeration order, as a
\* sequence of <<name, value>>: an object's properties in insertion order, an
\* array's index properties "0", "1", ...; undefined, null and primitives
\* have none
OwnProps(v) ==
    CASE v[1] = "object" -> v[2]
      [] v[1] = "array"  -> [i \in 1..Len(v[2]) |-> <<ToString(i - 1), v[2][i]>>]
      [] OTHER           -> <<>>

\* Object.keys as a set
Keys(v) == {OwnProps(v)[i][1] : i \in DOMAIN OwnProps(v)}

\* o[k] / o.k : a property read; reading a missing property gives undefined
Get(v, k) ==
    IF k \in Keys(v)
    THEN OwnProps(v)[CHOOSE i \in DOMAIN OwnProps(v) : OwnProps(v)[i][1] = k][2]
    ELSE Undefined

\* o[k] = x on an object: overwrite in place, or append a new property
Put(v, k, x) ==
    IF k \in Keys(v)
    THEN Obj([i \in DOMAIN v[2] |-> IF v[2][i][1] = k THEN <<k, x>> ELSE v[2][i]])
    ELSE Obj(Append(v[2], <<k, x>>))

\* ToBoolean
Truthy(v) ==
    CASE v[1] = "undefined" -> FALSE
      [] v[1] = "null"      -> FALSE
      [] v[1] = "boolean"   -> v[2]
      [] v[1] = "number"    -> v[2] # 0
      [] v[1] = "string"    -> v[2] # <<>> /\ v[2] # <<"">>
      [] OTHER              -> TRUE

\* copy the properties props (a sequence of <<name, value>>) into target
RECURSIVE PutAll(_, _)
PutAll(target, props) ==
    IF props = <<>> THEN target
    ELSE PutAll(Put(target, props[1][1], props[1][2]), Tail(props))

\* Object.assign(target, source)
ObjectAssign(target, source) == PutAll(target, OwnProps(source))

\* the property name a value is converted to when used as a key:
\* null -> "null", undefined -> "undefined", a one-token string -> itself
ToKey(v) ==
    CASE v[1] = "null"      -> "null"
      [] v[1] = "undefined" -> "undefined"
      [] v[1] = "string"    -> v[2][1]
      [] OTHER              -> "[object Object]"

\* Array.prototype.join(";") on an array of strings
RECURSIVE JoinSemi(_)
JoinSemi(elems) ==
    IF Len(elems) = 0 THEN <<>>
    ELSE IF Len(elems) = 1 THEN elems[1][2]
    ELSE elems[1][2] \o <<";">> \o JoinSemi(Tail(elems))

\* JSON.stringify, as the sequence of tokens of its output
RECURSIVE JsonTokens(_), JsonProps(_), JsonElems(_)
JsonTokens(v) ==
    CASE v[1] = "number"    -> <<ToString(v[2])>>
      [] v[1] = "string"    -> <<"\"">> \o v[2] \o <<"\"">>
      [] v[1] = "boolean"   -> <<IF v[2] THEN "true" ELSE "false">>
      [] v[1] = "array"     -> <<"[">> \o JsonElems(v[2]) \o <<"]">>
      [] v[1] = "object"    ->
            <<"{">> \o JsonProps(SelectSeq(v[2], LAMBDA pr : pr[2][1] # "undefined")) \o <<"}">>
      [] OTHER              -> <<"null">>

JsonProps(props) ==
    IF props = <<>> THEN <<>>
    ELSE <<"\"", props[1][1], "\"", ":">> \o JsonTokens(props[1][2])
         \o (IF Len(props) > 1 THEN <<",">> ELSE <<>>) \o JsonProps(Tail(props))

JsonElems(elems) ==
    IF elems = <<>> THEN <<>>
    ELSE JsonTokens(elems[1])
         \o (IF Len(elems) > 1 THEN <<",">> ELSE <<>>) \o JsonElems(Tail(elems))

\* mutant: typeof x === 'object' alone, which null satisfies too
IsStructured_NullToo(v) == v[1] \in {"object", "array", "null"}

\* typeof x === 'object' && x !== null
IsStructured(v) == v[1] \in {"object", "array"}

\* Aki.stringifyObjects(params)
StringifyObjects(params) ==
    Obj([i \in DOMAIN OwnProps(params) |->
            LET key == OwnProps(params)[i][1]
                val == OwnProps(params)[i][2]
            IN  <<key, IF IsStructured(val) THEN StrOf(JsonTokens(val)) ELSE val>>])

(* ------------------------------- state -------------------------------- *)

VARIABLES
    budget,                   \* the budget of this run, one of Budgets
    variant,                  \* which of the two source variants runs
    endpointName,             \* this.endpointName
    apiKey,                   \* this.apiKey
    clientSessionAuthKey,     \* this.clientSessionAuthKey (part_000 only)
    apiServerUrl,             \* this.apiServerUrl, a sequence of string tokens
    defaultProgressIntervall, \* this.defaultProgressIntervall
    raiseException,           \* this.raiseException (README only)
    jobsCanceled,             \* this.jobsCanceled: the set of its property names
    progressInputParams,      \* this.progressInputParams: name -> array of queued objects
    calls,                    \* per doAPIRequest call: its arguments and closure variables
    net,                      \* the fetch requests in flight
    timers,                   \* the pending setTimeout callbacks
    trace,                    \* per call: what it sent, received, and which callbacks ran
    userOps,                  \* number of user calls made besides doAPIRequest
    pollsSent,                \* number of poll requests sent so far
    cancelCalls,              \* history: per property name, the cancelRequest calls so far
    appendCalls,              \* history: per property name, the append calls so far
    keyTrace                  \* what the initAPIKey calls sent, received and called back

vars == <<budget, variant, endpointName, apiKey, clientSessionAuthKey, apiServerUrl,
          defaultProgressIntervall, raiseException, jobsCanceled,
          progressInputParams, calls, net, timers, trace, userOps, pollsSent,
          cancelCalls, appendCalls, keyTrace>>

history == <<cancelCalls, appendCalls, keyTrace>>

config == <<budget, variant, endpointName, clientSessionAuthKey, apiServerUrl,
            defaultProgressIntervall, raiseException>>

\* the interval the constructor sets when options give none
DefaultIntervallPart000 == 300

DefaultIntervallReadme == 200

\* the base URL the constructor sets when options give none
DefaultServerUrl == <<"https:/aki.io/api", "/">>

\* the options objects a handle is constructed with
NoOptions == Obj(<<>>)

AllOptions ==
    Obj(<< <<"apiServerUrl", StrOf(<<"http://host/api">>)>>,
           <<"progressIntervall", Num(500)>>,
           <<"raiseException", Bool(TRUE)>> >>)

\* the constructions explored: <<variant, options>>
Constructions ==
    { <<"part_000", AllOptions>>, <<"README", NoOptions>>, <<"README", AllOptions>> }

\* String.prototype.endsWith('/') on a token sequence
EndsWithSlash(u) == Len(u) > 0 /\ u[Len(u)] = "/"

\* constructor: this.apiServerUrl
CtorServerUrl(options) ==
    IF Truthy(Get(options, "apiServerUrl"))
    THEN LET u == Get(options, "apiServerUrl")[2]
         IN  IF ~EndsWithSlash(u) THEN u \o <<"/">> ELSE u
    ELSE DefaultServerUrl

\* constructor: this.defaultProgressIntervall
CtorIntervall(v, options) ==
    IF Truthy(Get(options, "progressIntervall"))
    THEN Get(options, "progressIntervall")[2]
    ELSE IF v = "part_000" THEN DefaultIntervallPart000 ELSE DefaultIntervallReadme

\* constructor: this.raiseException (the part_000 variant has no such field)
CtorRaise(v, options) ==
    IF v = "README" /\ Truthy(Get(options, "raiseException"))
    THEN Get(options, "raiseException")[2]
    ELSE FALSE

\* the state after new Aki(endpointName, apiKey, options)
Constructed ==
    /\ \E con \in Constructions :
        /\ variant = con[1]
        /\ apiServerUrl = CtorServerUrl(con[2])
        /\ defaultProgressIntervall = CtorIntervall(con[1], con[2])
        /\ raiseException = CtorRaise(con[1], con[2])
    /\ endpointName = "ep"
    /\ apiKey = Str("K1")
    /\ clientSessionAuthKey = IF variant = "part_000" THEN Null ELSE Undefined
    /\ jobsCanceled = {}
    /\ progressInputParams = <<>>
    /\ calls = <<>>
    /\ net = {}
    /\ timers = {}
    /\ trace = <<>>
    /\ userOps = 0
    /\ pollsSent = 0
    /\ cancelCalls = <<>>
    /\ appendCalls = <<>>
    /\ keyTrace = <<>>

Init == budget \in Budgets /\ Constructed

(* --------------------------- the environment --------------------------- *)

\* the job identifier the server issues for the c-th submission
JobIdOf(c) == Str(ToString(c))

\* a reply to a fetch: a transport failure, or an HTTP response with a JSON body
NetError == <<"neterror">>

Http(status, body) == <<"http", status, body>>

\* the body of a successful non-blocking submission
SubmittedBody(c) == Obj(<< <<"success", Bool(TRUE)>>, <<"job_id", JobIdOf(c)>> >>)

\* the body of a successful blocking submission
ResultBody == Obj(<< <<"success", Bool(TRUE)>>, <<"text", Str("hi")>> >>)

ErrorListBody ==
    Obj(<< <<"success", Bool(FALSE)>>, <<"error", Arr(<<Str("e1"), Str("e2")>>)>> >>)

ErrorStringBody == Obj(<< <<"success", Bool(FALSE)>>, <<"error", Str("bad")>> >>)

\* what the server may answer to a submission request
CallReplies(req) ==
    { NetError, Http(400, ErrorListBody), Http(403, ErrorStringBody),
      Http(200, IF Truthy(Get(req.fetch.params, "wait_for_result"))
                THEN ResultBody ELSE SubmittedBody(req.call)) }

ProgressObj(p) ==
    Obj(<< <<"progress", Num(p)>>, <<"queue_position", Num(2)>>, <<"estimate", Num(5)>>,
           <<"progress_data", Obj(<< <<"text", Str("partial")>> >>)>> >>)

JobResult == Obj(<< <<"text", Str("done!")>> >>)

PollBody(state, withProgress, p) ==
    LET base == Obj(<< <<"success", Bool(TRUE)>>, <<"job_state", Str(state)>> >>)
        prog == IF withProgress THEN Put(base, "progress", ProgressObj(p)) ELSE base
    IN  IF state = "done" THEN Put(prog, "job_result", JobResult) ELSE prog

\* what the server may answer to the poll request of cycle n: a failure, or
\* a status report, which carries a progress object unless the job is done
\* (a done report comes with or without one)
PollReplies(req) ==
    { NetError, Http(400, ErrorStringBody),
      Http(200, PollBody("running", TRUE, 40 * req.cycle)),
      Http(200, PollBody("canceled", TRUE, 40 * req.cycle)),
      Http(200, PollBody("done", TRUE, 100)),
      Http(200, PollBody("done", FALSE, 100)) }

(* ------------------------------ fetchAsync ----------------------------- *)

\* how an awaited call completes
Throw(e) == <<"throw", e>>

Return(x) == <<"return", x>>

\* the Response object fetch resolves with: it has ok and status, and no
\* property named success
ResponseObj(reply) ==
    Obj(<< <<"ok", Bool(reply[2] \in 200..299)>>, <<"status", Num(reply[2])>> >>)

\* the request fetchAsync(url, params, doPost) hands to fetch
FetchRequest(url, params, doPost) ==
    [url    |-> url,
     method |-> IF doPost THEN "POST" ELSE "GET",
     params |-> params,
     doPost |-> doPost]

\* the body fetchAsync gives the request
FetchBody(fetch) == IF fetch.doPost THEN StrOf(JsonTokens(fetch.params)) ELSE Null

\* fetchAsync of part_000: the parsed body whatever the status
FetchAsyncPart000(reply) ==
    IF reply[1] = "neterror" THEN Throw("fetch failed") ELSE Return(reply[3])

\* fetchAsync of README
FetchAsyncReadme(raise, reply) ==
    IF reply[1] = "neterror" THEN Throw("fetch failed")
    ELSE LET response == ResponseObj(reply) IN
         IF Truthy(Get(response, "success")) THEN Return(reply[3])
         ELSE IF raise THEN Throw("Error(response.error)")
         ELSE LET responseJson == reply[3]
                  joined == IF Get(responseJson, "error")[1] = "array"
                            THEN Put(responseJson, "error",
                                     StrOf(JoinSemi(Get(responseJson, "error")[2])))
                            ELSE responseJson
              IN  Return(Put(joined, "error_code", Get(response, "status")))

\* what awaiting this.fetchAsync gives once the reply has arrived
FetchAsync(v, raise, reply) ==
    IF v = "part_000" THEN FetchAsyncPart000(reply) ELSE FetchAsyncReadme(raise, reply)

(* ------------------------------- events -------------------------------- *)
(* trace[c] records, in order, what the c-th doAPIRequest call and its     *)
(* poll loop did.                                                          *)

EvSend(kind, cycle, params)    == <<"send", kind, cycle, params>>

EvReply(kind, cycle, reply, completion) == <<"reply", kind, cycle, reply, completion>>

EvProgressCallback(cycle, info, data) == <<"progressCallback", cycle, info, data>>

EvResultCallback(cycle, arg)   == <<"resultCallback", cycle, arg>>

EvSetTimeout(cycle, delay)     == <<"setTimeout", cycle, delay>>

EvTimer(cycle)                 == <<"timer", cycle>>

EvRejected(cycle, why)         == <<"rejected", cycle, why>>

EvStream(what)                 == <<"stream", what>>

\* history: checkProgress starts cycle `cycle`; the number of cancelRequest
\* calls made so far for this job and for the wildcard, the arrays queued for
\* this job and for the wildcard as it starts, and the number of
\* append_progressInputParams calls made so far for the job and the wildcard
EvCheckProgress(cycle, ownCanc, anyCanc, ownQueued, anyQueued, ownApp, anyApp) ==
    <<"checkProgress", cycle, ownCanc, anyCanc, ownQueued, anyQueued, ownApp, anyApp>>

\* the cycle number recorded with the callbacks of a progress stream
StreamCycle == 0 - 1

(* ----------------------------- doAPIRequest ---------------------------- *)

NestedParams ==
    Obj(<< <<"chat_context",
             Arr(<< Obj(<< <<"role", Str("user")>>, <<"content", Str("hi")>> >>) >>)>>,
           <<"top_k", Num(40)>>,
           <<"seed", Null>> >>)

FlatParams == Obj(<< <<"prompt", Str("p")>>, <<"wait_for_result", Bool(TRUE)>> >>)

\* the argument lists doAPIRequest is called with (the result callback is
\* always given); progressStream is a parameter of part_000 only
CallArgs(v) ==
    { [params |-> NestedParams, progressCallback |-> FALSE, progressStream |-> FALSE,
       apiKey |-> Null],
      [params |-> FlatParams, progressCallback |-> TRUE, progressStream |-> FALSE,
       apiKey |-> Null],
      [params |-> NestedParams, progressCallback |-> TRUE, progressStream |-> FALSE,
       apiKey |-> Str("K2")] }
    \cup (IF v = "part_000"
          THEN { [params |-> FlatParams, progressCallback |-> TRUE,
                  progressStream |-> TRUE, apiKey |-> Null] }
          ELSE {})

\* mutant: a wait_for_result given by the caller is left as it is
SubmitParams_KeepsCallers(v, args, key, sessionKey) ==
    LET transformed == StringifyObjects(args.params)
        withSession == IF v = "part_000"
                       THEN Put(transformed, "client_session_auth_key", sessionKey)
                       ELSE transformed
        withKey     == Put(withSession, "key", IF args.apiKey # Null THEN args.apiKey ELSE key)
    IN  IF "wait_for_result" \in Keys(args.params) THEN withKey
        ELSE Put(withKey, "wait_for_result", Bool(~args.progressCallback))

\* doAPIRequest: the parameters of the submission request
SubmitParams(v, args, key, sessionKey) ==
    LET transformed == StringifyObjects(args.params)
        withSession == IF v = "part_000"
                       THEN Put(transformed, "client_session_auth_key", sessionKey)
                       ELSE transformed
        withKey     == Put(withSession, "key", IF args.apiKey # Null THEN args.apiKey ELSE key)
    IN  Put(withKey, "wait_for_result", Bool(~args.progressCallback))

\* mutant: stringifyObjects writes the transformed values into its argument
TransformedRef_InPlace(paramsRef) == paramsRef

\* stringifyObjects: the object the transformed values are written to and
\* that is returned, var transformedParams = new Object()
TransformedRef(paramsRef) == "transformedParams"

\* doAPIRequest: the object the caller passed and the object the local params
\* refers to after params = await this.stringifyObjects(params), once key,
\* wait_for_result (and client_session_auth_key) are written through the
\* local; the two are one object when stringifyObjects returns its argument
ObjectsAfterSubmit(v, args, key, sessionKey) ==
    LET sent == SubmitParams(v, args, key, sessionKey)
    IN  [callers |-> IF TransformedRef("params") = "params" THEN sent ELSE args.params,
         sent    |-> sent]

\* doAPIRequest up to its await of fetchAsync
DoAPIRequest(args) ==
    /\ Len(calls) < budget.calls
    /\ LET c   == Len(calls) + 1
           url == apiServerUrl \o <<"call/", endpointName>>
           objs == ObjectsAfterSubmit(variant, args, apiKey, clientSessionAuthKey)
           ps  == objs.sent
       IN  /\ calls' = Append(calls, [args     |-> args,
                                      params   |-> objs.callers,
                                      jobID    |-> Undefined,
                                      stream   |-> "none",
                                      streamed |-> 0])
           /\ net' = net \cup {[call |-> c, kind |-> "call", cycle |-> 0, id |-> 0,
                                fetch |-> FetchRequest(url, ps, TRUE)]}
           /\ trace' = Append(trace, <<EvSend("call", 0, ps)>>)
    /\ UNCHANGED <<config, apiKey, jobsCanceled, progressInputParams, timers, userOps,
                   pollsSent, history>>


(* ------------------------ pollProgress / checkProgress ------------------ *)

\* this.progressInputParams[jobID]: the queued array, or undefined
QueuedFor(pip, jobID) ==
    IF ToKey(jobID) \in DOMAIN pip THEN Arr(pip[ToKey(jobID)]) ELSE Undefined

\* (jobID in this.progressInputParams) || (null in this.progressInputParams)
HasQueued(pip, jobID) == ToKey(jobID) \in DOMAIN pip \/ "null" \in DOMAIN pip

\* (jobID in this.jobsCanceled) || (null in this.jobsCanceled)
IsCanceled(jc, jobID) == ToKey(jobID) \in jc \/ "null" \in jc

\* checkProgress: the queued parameters copied into the fresh params object
MergeQueued(pip, jobID) ==
    IF HasQueued(pip, jobID) THEN ObjectAssign(Obj(<<>>), QueuedFor(pip, jobID))
    ELSE Obj(<<>>)

\* checkProgress: the cancellation flag of the poll request
WithCancelFlag(v, params, jc, jobID) ==
    IF v = "part_000" THEN Put(params, "canceled", Bool(IsCanceled(jc, jobID)))
    ELSE IF IsCanceled(jc, jobID) THEN Put(params, "cancel", Bool(TRUE))
    ELSE params

\* checkProgress: the parameters of the poll request
PollParams(v, pip, jc, key, jobID) ==
    WithCancelFlag(v, Put(Put(MergeQueued(pip, jobID), "job_id", jobID), "key", key),
                   jc, jobID)

\* mutant: the job's queue is drained one element at a time
PipAfterPoll_DrainsOne(pip, jobID) ==
    IF ToKey(jobID) \in DOMAIN pip /\ Len(pip[ToKey(jobID)]) > 1
    THEN [k \in DOMAIN pip \ {"null"} |-> IF k = ToKey(jobID) THEN Tail(pip[k]) ELSE pip[k]]
    ELSE [k \in DOMAIN pip \ {ToKey(jobID), "null"} |-> pip[k]]

\* mutant: every queue is deleted, those of other jobs included
PipAfterPoll_ClearsAll(pip, jobID) == IF HasQueued(pip, jobID) THEN <<>> ELSE pip

\* checkProgress: this.progressInputParams after the deletes
PipAfterPoll(pip, jobID) ==
    IF HasQueued(pip, jobID)
    THEN [k \in DOMAIN pip \ {ToKey(jobID), "null"} |-> pip[k]]
    ELSE pip

\* mutant: only the job's entry is deleted, the wildcard entry stays
JcAfterPoll_KeepsWildcard(jc, jobID) == jc \ {ToKey(jobID)}

\* mutant: only the wildcard entry is deleted, the job's entry stays
JcAfterPoll_KeepsJob(jc, jobID) == jc \ {"null"}

\* checkProgress: this.jobsCanceled after the deletes
JcAfterPoll(jc, jobID) == jc \ {ToKey(jobID), "null"}

\* number of cancelRequest calls made so far under property name k
CancelCount(k) == IF k \in DOMAIN cancelCalls THEN cancelCalls[k] ELSE 0

\* number of append_progressInputParams calls made so far under property name k
AppendCount(k) == IF k \in DOMAIN appendCalls THEN appendCalls[k] ELSE 0

\* checkProgress from its start to its await: the request it sends and what
\* it leaves in the two maps
CheckProgressStart(c, jobID, cycle) ==
    LET ps == PollParams(variant, progressInputParams, jobsCanceled, apiKey, jobID)
    IN  [req    |-> [call |-> c, kind |-> "progress", cycle |-> cycle,
                     id |-> Len(trace[c]),
                     fetch |-> FetchRequest(apiServerUrl \o <<"progress/", endpointName>>,
                                            ps, TRUE)],
         pip    |-> PipAfterPoll(progressInputParams, jobID),
         jc     |-> JcAfterPoll(jobsCanceled, jobID),
         events |-> << EvCheckProgress(cycle, CancelCount(ToKey(jobID)),
                                       CancelCount("null"),
                                       QueuedFor(progressInputParams, jobID),
                                       QueuedFor(progressInputParams, Null),
                                       AppendCount(ToKey(jobID)), AppendCount("null")),
                       EvSend("progress", cycle, ps) >>]

\* fetchProgress: part_000 catches a failed fetch and returns {}
FetchProgress(v, raise, reply) ==
    LET completion == FetchAsync(v, raise, reply)
    IN  IF v = "part_000" /\ completion[1] = "throw" THEN Return(Obj(<<>>))
        ELSE completion

\* mutant: the estimate is the -1 sentinel, as in the progress stream
ProgressInfo_NoEstimate(progress) ==
    Obj(<< <<"progress", Get(progress, "progress")>>,
           <<"queue_position", Get(progress, "queue_position")>>,
           <<"estimate", Num(-1)>> >>)

\* the progressInfo object checkProgress passes to the progress callback
ProgressInfo(progress) ==
    Obj(<< <<"progress", Get(progress, "progress")>>,
           <<"queue_position", Get(progress, "queue_position")>>,
           <<"estimate", Get(progress, "estimate")>> >>)

\* mutant: the final state is compared with a name the server never reports
IsFinalResult_WrongState(result) ==
    Get(result, "job_state") = Str("finished") /\ Get(result, "progress") = Undefined

\* checkProgress: result.job_state === 'done' && result.progress === undefined
IsFinalResult(result) ==
    Get(result, "job_state") = Str("done") /\ Get(result, "progress") = Undefined

\* mutant: no next cycle is ever scheduled
SchedulesNext_Never(result) == FALSE

\* mutant: the canceled state is not looked at
SchedulesNext_Always(result) == TRUE

\* checkProgress: after the progress callback, the next cycle is scheduled
\* unless result.job_state === 'canceled'
SchedulesNext(result) == Get(result, "job_state") # Str("canceled")

\* mutant: a canceled report ends the cycle before the progress callback
CheckProgressResume_SilentCancel(completion, cycle) ==
    IF completion[1] = "throw"
    THEN [events |-> <<EvRejected(cycle, completion[2])>>, again |-> FALSE]
    ELSE LET result   == completion[2]
             progress == Get(result, "progress")
         IN  IF ~Truthy(Get(result, "success")) \/ Get(result, "job_state") = Str("canceled")
             THEN [events |-> <<>>, again |-> FALSE]
             ELSE IF IsFinalResult(result)
             THEN [events |-> <<EvResultCallback(cycle, Get(result, "job_result"))>>,
                   again  |-> FALSE]
             ELSE IF progress[1] \in {"undefined", "null"}
             THEN [events |-> <<EvRejected(cycle, "TypeError")>>, again |-> FALSE]
             ELSE [events |-> <<EvProgressCallback(cycle, ProgressInfo(progress),
                                                   Get(progress, "progress_data"))>>,
                   again  |-> TRUE]

\* mutant: the next cycle is scheduled after the result callback as well
CheckProgressResume_AgainAfterResult(completion, cycle) ==
    IF completion[1] = "throw"
    THEN [events |-> <<EvRejected(cycle, completion[2])>>, again |-> FALSE]
    ELSE LET result   == completion[2]
             progress == Get(result, "progress")
         IN  IF ~Truthy(Get(result, "success"))
             THEN [events |-> <<>>, again |-> FALSE]
             ELSE IF IsFinalResult(result)
             THEN [events |-> <<EvResultCallback(cycle, Get(result, "job_result"))>>,
                   again  |-> TRUE]
             ELSE IF progress[1] \in {"undefined", "null"}
             THEN [events |-> <<EvRejected(cycle, "TypeError")>>, again |-> FALSE]
             ELSE [events |-> <<EvProgressCallback(cycle, ProgressInfo(progress),
                                                   Get(progress, "progress_data"))>>,
                   again  |-> SchedulesNext(result)]

\* checkProgress after its await: the callbacks it runs, and whether it
\* schedules itself again
CheckProgressResume(completion, cycle) ==
    IF completion[1] = "throw"
    THEN [events |-> <<EvRejected(cycle, completion[2])>>, again |-> FALSE]
    ELSE LET result   == completion[2]
             progress == Get(result, "progress")
         IN  IF ~Truthy(Get(result, "success"))
             THEN [events |-> <<>>, again |-> FALSE]
             ELSE IF IsFinalResult(result)
             THEN [events |-> <<EvResultCallback(cycle, Get(result, "job_result"))>>,
                   again  |-> FALSE]
             ELSE IF progress[1] \in {"undefined", "null"}
             THEN [events |-> <<EvRejected(cycle, "TypeError")>>, again |-> FALSE]
             ELSE [events |-> <<EvProgressCallback(cycle, ProgressInfo(progress),
                                                   Get(progress, "progress_data"))>>,
                   again  |-> SchedulesNext(result)]

\* mutant: the initial update carries 0 where the code has the -1 sentinels
InitialProgressInfo_NoSentinels(jobID) ==
    Obj(<< <<"job_id", jobID>>, <<"progress", Num(0)>>,
           <<"queue_position", Num(0)>>, <<"estimate", Num(0)>> >>)

\* the progressInfo object of the initial progress update
InitialProgressInfo(jobID) ==
    Obj(<< <<"job_id", jobID>>, <<"progress", Num(0)>>,
           <<"queue_position", Num(-1)>>, <<"estimate", Num(-1)>> >>)

\* mutant: the success field of the submission response is not looked at
SubmissionSucceeded_Unchecked(response) == TRUE

\* doAPIRequest: if (response.success)
SubmissionSucceeded(response) == Truthy(Get(response, "success"))

\* setTimeout(checkProgress.bind(this), this.defaultProgressIntervall)
SetTimeout(tms, c, cycle, delay) ==
    tms \cup {[call |-> c, cycle |-> cycle, delay |-> delay, id |-> Len(trace[c])]}

\* mutant: the timer stays set after it has fired, as with setInterval
TimersAfterFire_Interval(tms, t) == tms

\* a timer that fires is gone: setTimeout runs its callback once
TimersAfterFire(tms, t) == tms \ {t}

\* doAPIRequest after its await: the reply to the submission has arrived.
\* domOk tells whether alert and EventSource exist where the code runs.
CallReply(req, reply, domOk) ==
    /\ req \in net
    /\ req.kind = "call"
    /\ reply \in CallReplies(req)
    /\ LET c          == req.call
           args       == calls[c].args
           completion == FetchAsync(variant, raiseException, reply)
           evReply    == EvReply("call", 0, reply, completion)
           response   == completion[2]
           jobID      == Get(response, "job_id")
           evInitial  == EvProgressCallback(0, InitialProgressInfo(jobID), Null)
           start      == CheckProgressStart(c, jobID, 1)
       IN  IF completion[1] = "throw"
           THEN /\ trace' = [trace EXCEPT ![c] = @ \o <<evReply, EvRejected(0, completion[2])>>]
                /\ net' = net \ {req}
                /\ UNCHANGED <<calls, jobsCanceled, progressInputParams, pollsSent>>
           ELSE IF ~(SubmissionSucceeded(response) /\ args.progressCallback)
           THEN /\ trace' = [trace EXCEPT ![c] = @ \o <<evReply, EvResultCallback(0, response)>>]
                /\ net' = net \ {req}
                /\ UNCHANGED <<calls, jobsCanceled, progressInputParams, pollsSent>>
           ELSE IF args.progressStream
           THEN /\ trace' = [trace EXCEPT ![c] = @ \o <<evReply, evInitial,
                                EvStream(IF domOk THEN "open" ELSE "failed")>>]
                /\ calls' = [calls EXCEPT ![c].jobID = jobID,
                                          ![c].stream = IF domOk THEN "open" ELSE "failed"]
                /\ net' = net \ {req}
                /\ UNCHANGED <<jobsCanceled, progressInputParams, pollsSent>>
           ELSE /\ pollsSent < budget.polls
                /\ trace' = [trace EXCEPT ![c] = @ \o <<evReply, evInitial>> \o start.events]
                /\ calls' = [calls EXCEPT ![c].jobID = jobID]
                /\ net' = (net \ {req}) \cup {start.req}
                /\ progressInputParams' = start.pip
                /\ jobsCanceled' = start.jc
                /\ pollsSent' = pollsSent + 1
    /\ UNCHANGED <<config, apiKey, timers, userOps, history>>

\* checkProgress after its await: the reply to a poll request has arrived
PollReply(req, reply) ==
    /\ req \in net
    /\ req.kind = "progress"
    /\ reply \in PollReplies(req)
    /\ LET c          == req.call
           completion == FetchProgress(variant, raiseException, reply)
           step       == CheckProgressResume(completion, req.cycle)
       IN  /\ trace' = [trace EXCEPT ![c] = @ \o <<EvReply("progress", req.cycle, reply, completion)>>
                                              \o step.events
                                              \o (IF step.again
                                                  THEN <<EvSetTimeout(req.cycle + 1,
                                                                      defaultProgressIntervall)>>
                                                  ELSE <<>>)]
           /\ timers' = IF step.again
                        THEN SetTimeout(timers, c, req.cycle + 1, defaultProgressIntervall)
                        ELSE timers
           /\ net' = net \ {req}
    /\ UNCHANGED <<config, apiKey, calls, jobsCanceled, progressInputParams, userOps,
                   pollsSent, history>>

\* a timer set by checkProgress fires: checkProgress runs again up to its await
TimerFire(t) ==
    /\ t \in timers
    /\ pollsSent < budget.polls
    /\ LET start == CheckProgressStart(t.call, calls[t.call].jobID, t.cycle)
       IN  /\ trace' = [trace EXCEPT ![t.call] = @ \o <<EvTimer(t.cycle)>> \o start.events]
           /\ net' = net \cup {start.req}
           /\ progressInputParams' = start.pip
           /\ jobsCanceled' = start.jc
    /\ timers' = TimersAfterFire(timers, t)
    /\ pollsSent' = pollsSent + 1
    /\ UNCHANGED <<config, apiKey, calls, userOps, history>>

(* -------------------- cancelRequest / append_progressInputParams -------- *)

\* the job identifiers the user passes: null (the default) or a job's id
UserJobIds == {Null} \cup {JobIdOf(c) : c \in 1..MaxJobs}

\* the parameter object the user queues in the n-th user call: {a: 1} in the
\* first, {b: 2} in the others
ExtraParams(n) ==
    IF n = 1 THEN Obj(<< <<"a", Num(1)>> >>) ELSE Obj(<< <<"b", Num(2)>> >>)

\* mutant: cancelRequest also drops the job's request in flight and its timer
CancelRequest_Aborts(jobID) ==
    /\ userOps < budget.userOps
    /\ jobsCanceled' = jobsCanceled \cup {ToKey(jobID)}
    /\ userOps' = userOps + 1
    /\ cancelCalls' = (ToKey(jobID) :> CancelCount(ToKey(jobID)) + 1) @@ cancelCalls
    /\ net' = {r \in net : r.kind = "progress" => Get(r.fetch.params, "job_id") # jobID}
    /\ timers' = {t \in timers : calls[t.call].jobID # jobID}
    /\ UNCHANGED <<config, apiKey, progressInputParams, calls, trace, pollsSent,
                   appendCalls, keyTrace>>

\* cancelRequest(jobID = null)
CancelRequest(jobID) ==
    /\ userOps < budget.userOps
    /\ jobsCanceled' = jobsCanceled \cup {ToKey(jobID)}
    /\ userOps' = userOps + 1
    /\ cancelCalls' = (ToKey(jobID) :> CancelCount(ToKey(jobID)) + 1) @@ cancelCalls
    /\ UNCHANGED <<config, apiKey, progressInputParams, calls, net, timers, trace, pollsSent,
                   appendCalls, keyTrace>>

\* append_progressInputParams(jobID, params)
AppendProgressInputParams(jobID, params) ==
    /\ userOps < budget.userOps
    /\ progressInputParams' =
          IF ToKey(jobID) \in DOMAIN progressInputParams
          THEN [progressInputParams EXCEPT ![ToKey(jobID)] = Append(@, params)]
          ELSE (ToKey(jobID) :> <<params>>) @@ progressInputParams
    /\ userOps' = userOps + 1
    /\ appendCalls' = (ToKey(jobID) :> AppendCount(ToKey(jobID)) + 1) @@ appendCalls
    /\ UNCHANGED <<config, apiKey, jobsCanceled, calls, net, timers, trace, pollsSent,
                   cancelCalls, keyTrace>>

(* -------------------------- setupProgressStream ------------------------- *)

\* the events the server streams
StreamData ==
    { Obj(<< <<"success", Bool(TRUE)>>, <<"job_id", Str("1")>>, <<"progress", Num(40)>>,
             <<"queue_position", Num(2)>>, <<"job_state", Str(st)>>,
             <<"job_result", JobResult>> >>) : st \in {"running", "done", "canceled"} }

\* eventSource.onmessage of setupProgressStream (part_000)
StreamMessage(c, data) ==
    /\ c \in DOMAIN calls
    /\ calls[c].stream = "open"
    /\ calls[c].streamed < MaxStreamEvents
    /\ LET info      == Obj(<< <<"progress", Get(data, "progress")>>,
                               <<"queue_position", Get(data, "queue_position")>>,
                               <<"estimate", Num(-1)>> >>)
           evCb      == EvProgressCallback(StreamCycle, info, Get(data, "progress_data"))
           jobResult == Put(Put(Get(data, "job_result"), "job_id", Get(data, "job_id")),
                            "success", Get(data, "success"))
           state     == Get(data, "job_state")
       IN  /\ trace' = [trace EXCEPT ![c] = @ \o <<evCb>> \o
                            (IF state = Str("done")
                             THEN <<EvResultCallback(StreamCycle, jobResult), EvStream("closed")>>
                             ELSE IF state = Str("canceled") THEN <<EvStream("closed")>>
                             ELSE <<>>)]
           /\ calls' = [calls EXCEPT ![c].streamed = @ + 1,
                                     ![c].stream = IF state \in {Str("done"), Str("canceled")}
                                                   THEN "closed" ELSE @]
    /\ UNCHANGED <<config, apiKey, jobsCanceled, progressInputParams, net, timers, userOps,
                   pollsSent, history>>

(* ------------------------------ initAPIKey ------------------------------ *)

\* encodeURIComponent(Aki.version)
EncodedVersion == "JavaScript%20AKI.IO%20API%20Client%20Interface%201.0.0"

\* the apiKey arguments initAPIKey is called with: none (null), or a new key
KeyArgs == {Null, Str("K3")}

\* mutant: the argument is stored whatever it is
KeyAfterInit_Always(current, arg) == arg

\* initAPIKey: if (apiKey != null) this.apiKey = apiKey
KeyAfterInit(current, arg) == IF arg \notin {Null, Undefined} THEN arg ELSE current

\* the URL initAPIKey builds
ValidateUrl(url, key) ==
    url \o <<"validate_key?key=", ToKey(key), "&version=", EncodedVersion>>

\* a call this.fetchAsync(url, params, doPost) whose third argument may be
\* left out: the parameter then takes its default, true
FetchCall(url, params, doPost) ==
    FetchRequest(url, params, IF doPost = Undefined THEN TRUE ELSE Truthy(doPost))

\* the initAPIKey calls made so far
KeyCalls == SelectSeq(keyTrace, LAMBDA e : e[1] = "initAPIKey")

\* initAPIKey(resultCallback, errorCallback, apiKey) up to its await; both
\* callbacks are given (README has no errorCallback parameter)
InitAPIKey(arg) ==
    /\ Len(KeyCalls) < MaxKeyCalls
    /\ LET n     == Len(KeyCalls) + 1
           key   == KeyAfterInit(apiKey, arg)
           fetch == FetchCall(ValidateUrl(apiServerUrl, key), Bool(FALSE), Undefined)
       IN  /\ apiKey' = key
           /\ net' = net \cup {[call |-> 0, kind |-> "validate", cycle |-> n, id |-> 0,
                                fetch |-> fetch]}
           /\ keyTrace' = Append(keyTrace, <<"initAPIKey", n, arg, fetch>>)
    /\ UNCHANGED <<config, jobsCanceled, progressInputParams, calls, timers, trace, userOps,
                   pollsSent, cancelCalls, appendCalls>>

\* what the server may answer to a validate_key request
ValidateReplies ==
    { NetError, Http(200, Obj(<< <<"success", Bool(TRUE)>> >>)), Http(403, ErrorStringBody) }

\* initAPIKey after its await: which callback it calls.  part_000 throws on
\* a response without success and catches every error; README does neither.
InitAPIKeyResume(v, completion) ==
    IF completion[1] = "throw"
    THEN IF v = "part_000" THEN "errorCallback" ELSE "rejected"
    ELSE IF Truthy(Get(completion[2], "success")) THEN "resultCallback"
    ELSE IF v = "part_000" THEN "errorCallback" ELSE "none"

\* the reply to a validate_key request has arrived
ValidateReply(req, reply) ==
    /\ req \in net
    /\ req.kind = "validate"
    /\ reply \in ValidateReplies
    /\ LET completion == FetchAsync(variant, raiseException, reply)
       IN  keyTrace' = Append(keyTrace, <<"validated", req.cycle, reply, completion,
                                         InitAPIKeyResume(variant, completion)>>)
    /\ net' = net \ {req}
    /\ UNCHANGED <<config, apiKey, jobsCanceled, progressInputParams, calls, timers, trace,
                   userOps, pollsSent, cancelCalls, appendCalls>>

(* ---------------------------- specification ----------------------------- *)

Next ==
    \/ \E args \in CallArgs(variant) : DoAPIRequest(args)
    \/ \E req \in net : \E reply \in CallReplies(req), domOk \in BOOLEAN :
          CallReply(req, reply, domOk)
    \/ \E req \in net : \E reply \in PollReplies(req) : PollReply(req, reply)
    \/ \E t \in timers : TimerFire(t)
    \/ \E jobID \in UserJobIds : CancelRequest(jobID)
    \/ \E jobID \in UserJobIds :
          AppendProgressInputParams(jobID, ExtraParams(userOps + 1))
    \/ \E c \in DOMAIN calls, data \in StreamData : StreamMessage(c, data)

Spec == Init /\ [][Next]_vars

(* The handle with initAPIKey among its operations. *)

KeyNext ==
    \/ \E args \in CallArgs(variant) : DoAPIRequest(args)
    \/ \E req \in net : \E reply \in CallReplies(req), domOk \in BOOLEAN :
          CallReply(req, reply, domOk)
    \/ \E req \in net : \E reply \in PollReplies(req) : PollReply(req, reply)
    \/ \E t \in timers : TimerFire(t)
    \/ \E jobID \in UserJobIds : CancelRequest(jobID)
    \/ \E jobID \in UserJobIds :
          AppendProgressInputParams(jobID, ExtraParams(userOps + 1))
    \/ \E c \in DOMAIN calls, data \in StreamData : StreamMessage(c, data)
    \/ \E arg \in KeyArgs : InitAPIKey(arg)
    \/ \E req \in net : \E reply \in ValidateReplies : ValidateReply(req, reply)

KeyInit ==
    /\ budget = [calls |-> MaxCalls, polls |-> MaxKeyPolls, userOps |-> MaxKeyUserOps]
    /\ Constructed

KeySpec == KeyInit /\ [][KeyNext]_vars

(* One blocking doAPIRequest call with a parameter object drawn from the   *)
(* objects of up to MaxKeys properties over ParamValues: stringifyObjects  *)
(* is applied to it by the call.                                           *)

\* the property names of a parameter object, in insertion order
ParamNames == <<"prompt", "context", "options", "extra">>

\* the property values: scalars, null, undefined, objects and arrays
ParamValues ==
    { Num(7), Str("s"), Bool(FALSE), Null, Undefined,
      Obj(<<>>), Obj(<< <<"x", Num(1)>>, <<"y", Null>> >>),
      Arr(<<>>), Arr(<< Num(1), Str("a"), Obj(<< <<"z", Bool(TRUE)>> >>) >>) }

StringifyInputs ==
    UNION { { Obj([i \in 1..n |-> <<ParamNames[i], f[i]>>]) : f \in [1..n -> ParamValues] } :
            n \in 0..MaxKeys }

StringifyArgs ==
    { [params |-> ps, progressCallback |-> FALSE, progressStream |-> FALSE, apiKey |-> Null] :
      ps \in StringifyInputs }

StringifyNext ==
    \/ \E args \in StringifyArgs : calls = <<>> /\ DoAPIRequest(args)
    \/ \E req \in net : \E reply \in CallReplies(req) : CallReply(req, reply, TRUE)

StringifySpec == Init /\ [][StringifyNext]_vars

(* One job followed to its end, with no other call made on the handle.     *)
(* The server ends every job: the last poll cycle explored is answered     *)
(* with a report after which the loop does not go on (done without a       *)
(* progress object, canceled, or a failure).  Every poll request is        *)
(* answered and every timer set fires: fetch settles and the event loop    *)
(* runs a due setTimeout callback.                                         *)

\* a report after which checkProgress schedules another cycle
KeepsPolling(reply) ==
    /\ reply[1] = "http"
    /\ Truthy(Get(reply[3], "success"))
    /\ Get(reply[3], "progress")[1] = "object"
    /\ Get(reply[3], "job_state") # Str("canceled")

LivePollReplies(req) ==
    IF req.cycle < budget.polls THEN PollReplies(req)
    ELSE {reply \in PollReplies(req) : ~KeepsPolling(reply)}

LivePollReply(req, reply) == reply \in LivePollReplies(req) /\ PollReply(req, reply)

\* the one doAPIRequest call of the run, polled and not streamed
LiveDoAPIRequest(args) == calls = <<>> /\ ~args.progressStream /\ DoAPIRequest(args)

LiveInit == Init /\ budget.calls = MaxCalls

LiveNext ==
    \/ \E args \in CallArgs(variant) : LiveDoAPIRequest(args)
    \/ \E req \in net : \E reply \in CallReplies(req) : CallReply(req, reply, TRUE)
    \/ \E req \in net : \E reply \in LivePollReplies(req) : LivePollReply(req, reply)
    \/ \E t \in timers : TimerFire(t)

LiveSpec ==
    /\ LiveInit
    /\ [][LiveNext]_vars
    /\ WF_vars(\E req \in net : \E reply \in LivePollReplies(req) : LivePollReply(req, reply))
    /\ WF_vars(\E t \in timers : TimerFire(t))


(* ------------------------- reading the history -------------------------- *)

\* the poll requests call c has sent, in order
PollSends(c) == SelectSeq(trace[c], LAMBDA e : e[1] = "send" /\ e[2] = "progress")

\* the starts of call c's poll cycles, in order
PollStarts(c) == SelectSeq(trace[c], LAMBDA e : e[1] = "checkProgress")

\* the replies call c's poll requests have received, in order
PollReplyEvents(c) == SelectSeq(trace[c], LAMBDA e : e[1] = "reply" /\ e[2] = "progress")

\* the reply to call c's submission request, once it has arrived
CallReplyEvents(c) == SelectSeq(trace[c], LAMBDA e : e[1] = "reply" /\ e[2] = "call")

\* every callback call c has made, in order
Callbacks(c) ==
    SelectSeq(trace[c], LAMBDA e : e[1] \in {"progressCallback", "resultCallback"})

\* the callbacks call c's poll loop has made, in order
PollLoopCallbacks(c) ==
    SelectSeq(trace[c], LAMBDA e : e[1] \in {"progressCallback", "resultCallback"}
                                   /\ e[2] >= 1)

\* the callbacks call c made in cycle n
CallbacksOfCycle(c, n) ==
    SelectSeq(trace[c], LAMBDA e : e[1] \in {"progressCallback", "resultCallback"}
                                   /\ e[2] = n)

\* the poll requests of call c in flight, and its pending timers
PollsInFlight(c) == {r \in net : r.call = c /\ r.kind = "progress"}

TimersOf(c) == {t \in timers : t.call = c}

\* a reply event whose fetchAsync returned (did not throw), and what it returned
Returned(ev) == ev[5][1] = "return"

ResultOf(ev) == ev[5][2]

\* the positions of trace[c] holding a poll request
SendPositions(c) ==
    {i \in DOMAIN trace[c] : trace[c][i][1] = "send" /\ trace[c][i][2] = "progress"}

\* the cancellation flag of a poll request: canceled (part_000) or cancel (README)
CancelFlag(params) == Truthy(Get(params, "canceled")) \/ Truthy(Get(params, "cancel"))

(* -------------------------------- claims -------------------------------- *)

\* a successful poll reply that reports job_state running with a progress object
ReportsRunning(ev) ==
    /\ Returned(ev)
    /\ Truthy(Get(ResultOf(ev), "success"))
    /\ Get(ResultOf(ev), "job_state") = Str("running")
    /\ Get(ResultOf(ev), "progress")[1] = "object"

\* a successful poll reply that reports job_state done with a job_result and
\* no progress field
ReportsDone(ev) ==
    /\ Returned(ev)
    /\ Truthy(Get(ResultOf(ev), "success"))
    /\ Get(ResultOf(ev), "job_state") = Str("done")
    /\ "job_result" \in Keys(ResultOf(ev))
    /\ "progress" \notin Keys(ResultOf(ev))

C1_Case(c) ==
    /\ Len(PollReplyEvents(c)) >= 2
    /\ ReportsRunning(PollReplyEvents(c)[1])
    /\ ReportsDone(PollReplyEvents(c)[2])

\* C1: when poll cycle 1 returns success/running with a progress object and
\* poll cycle 2 returns success/done with a job_result and no progress, the
\* poll loop has called the progress callback exactly once (cycle 1, with
\* that reply's progress, queue_position and estimate), then the result
\* callback exactly once (cycle 2, with the job_result), and a third poll
\* request is neither sent nor scheduled.
C1_RunningThenDone ==
    \A c \in DOMAIN trace :
        C1_Case(c) =>
            LET r1  == ResultOf(PollReplyEvents(c)[1])
                r2  == ResultOf(PollReplyEvents(c)[2])
                cbs == PollLoopCallbacks(c)
            IN  /\ Len(cbs) = 2
                /\ cbs[1][1] = "progressCallback"
                /\ cbs[1][2] = 1
                /\ Get(cbs[1][3], "progress") = Get(Get(r1, "progress"), "progress")
                /\ Get(cbs[1][3], "queue_position") = Get(Get(r1, "progress"), "queue_position")
                /\ Get(cbs[1][3], "estimate") = Get(Get(r1, "progress"), "estimate")
                /\ cbs[2] = EvResultCallback(2, Get(r2, "job_result"))
                /\ Len(PollSends(c)) = 2
                /\ PollsInFlight(c) = {}
                /\ TimersOf(c) = {}

C1_Witness == \E c \in DOMAIN trace : C1_Case(c) /\ Len(PollLoopCallbacks(c)) = 2

C2_Case(c) ==
    /\ calls[c].args.progressCallback
    /\ Len(CallReplyEvents(c)) = 1
    /\ Returned(CallReplyEvents(c)[1])
    /\ Truthy(Get(ResultOf(CallReplyEvents(c)[1]), "success"))

\* C2: when doAPIRequest has a progress callback and the submission response
\* has success true, the progress callback is called exactly once with
\* progress 0, queue_position -1, estimate -1 and the job id, with null as
\* progress data, and that call comes before the job's first poll request.
C2_InitialProgress ==
    \A c \in DOMAIN trace :
        C2_Case(c) =>
            LET response == ResultOf(CallReplyEvents(c)[1])
                initial  == {i \in DOMAIN trace[c] :
                                /\ trace[c][i][1] = "progressCallback"
                                /\ Get(trace[c][i][3], "progress") = Num(0)
                                /\ Get(trace[c][i][3], "queue_position") = Num(-1)
                                /\ Get(trace[c][i][3], "estimate") = Num(-1)}
            IN  /\ Cardinality(initial) = 1
                /\ \A i \in initial :
                      /\ Get(trace[c][i][3], "job_id") = Get(response, "job_id")
                      /\ trace[c][i][4] = Null
                      /\ \A j \in SendPositions(c) : i < j
                      /\ \A j \in 1..(i - 1) :
                            trace[c][j][1] \notin {"progressCallback", "resultCallback"}

C2_Witness == \E c \in DOMAIN trace : C2_Case(c) /\ Len(PollSends(c)) >= 1

C3_Case(c) ==
    /\ ~calls[c].args.progressCallback
    /\ Len(CallReplyEvents(c)) = 1
    /\ CallReplyEvents(c)[1][4][1] = "http"
    /\ Truthy(Get(CallReplyEvents(c)[1][4][3], "success"))

\* C3: when doAPIRequest has no progress callback and the server replies with
\* success true and a result body, the result callback has been called
\* exactly once, with that body, after the one network call; no poll request
\* is sent and no timer is set.
C3_BlockingResult ==
    \A c \in DOMAIN trace :
        C3_Case(c) =>
            /\ Callbacks(c) = <<EvResultCallback(0, CallReplyEvents(c)[1][4][3])>>
            /\ Len(SelectSeq(trace[c], LAMBDA e : e[1] = "send")) = 1
            /\ PollsInFlight(c) = {}
            /\ TimersOf(c) = {}

C4_Case(c) ==
    /\ Len(CallReplyEvents(c)) = 1
    /\ Returned(CallReplyEvents(c)[1])
    /\ ~Truthy(Get(ResultOf(CallReplyEvents(c)[1]), "success"))

\* C4: when the response to the submission call reports failure (success
\* false), the result callback is called with that response, the progress
\* callback is never called and no poll loop starts, with or without a
\* progress callback.
C4_SubmissionFailure ==
    \A c \in DOMAIN trace :
        C4_Case(c) =>
            /\ Callbacks(c) = <<EvResultCallback(0, ResultOf(CallReplyEvents(c)[1]))>>
            /\ PollStarts(c) = <<>>
            /\ PollSends(c) = <<>>
            /\ PollsInFlight(c) = {}
            /\ TimersOf(c) = {}
            /\ calls[c].stream = "none"

C4_Witness ==
    \E c \in DOMAIN trace :
        C4_Case(c) /\ calls[c].args.progressCallback /\ Len(Callbacks(c)) = 1

\* C5: a cancelRequest for a job made between two of its poll cycles puts the
\* cancellation flag into the next poll request and the job's entry leaves
\* the cancellation set (it is there again only after a new cancelRequest); a
\* later poll request carries the flag only if cancelRequest (for the job or
\* the wildcard) was called again since the poll before it.
C5_CancelConsumedOnce ==
    \A c \in DOMAIN trace :
        LET starts == PollStarts(c)
            sends  == PollSends(c)
            key    == ToKey(calls[c].jobID)
        IN  /\ \A i \in 2..Len(starts) :
                  /\ starts[i][3] > starts[i - 1][3] => CancelFlag(sends[i][4])
                  /\ CancelFlag(sends[i][4]) =>
                        \/ starts[i][3] > starts[i - 1][3]
                        \/ starts[i][4] > starts[i - 1][4]
            /\ (Len(starts) >= 1 /\ key \in jobsCanceled) =>
                  CancelCount(key) > starts[Len(starts)][3]

C5_Witness ==
    \E c \in DOMAIN trace :
        \E i \in 2..(Len(PollStarts(c)) - 1) :
            /\ PollStarts(c)[i][3] > PollStarts(c)[i - 1][3]
            /\ CancelFlag(PollSends(c)[i][4])
            /\ ~CancelFlag(PollSends(c)[i + 1][4])
            /\ ToKey(calls[c].jobID) \notin jobsCanceled


\* the object params holds every key/value pair of the object p
ContainsPairs(params, p) ==
    \A k \in Keys(p) : k \in Keys(params) /\ Get(params, k) = Get(p, k)

\* the property names every poll request has
PollRequestKeys == {"job_id", "key", "canceled", "cancel"}

\* C6: after append_progressInputParams(J1, p), the next poll request for J1
\* holds the key/value pairs of p among its parameters, a poll request built
\* when nothing is queued holds none, and after the poll J1 has no queued
\* entry (until the next append call).
C6_QueuedParamsMerged ==
    \A c \in DOMAIN trace :
        LET starts == PollStarts(c)
            sends  == PollSends(c)
            key    == ToKey(calls[c].jobID)
        IN  /\ \A i \in DOMAIN starts :
                  /\ starts[i][5][1] = "array" =>
                        \A n \in DOMAIN starts[i][5][2] :
                            ContainsPairs(sends[i][4], starts[i][5][2][n])
                  /\ (starts[i][5] = Undefined /\ starts[i][6] = Undefined) =>
                        Keys(sends[i][4]) \subseteq PollRequestKeys
            /\ (Len(starts) >= 1 /\ key \in DOMAIN progressInputParams) =>
                  AppendCount(key) > starts[Len(starts)][7]

\* C7: parameters queued under the wildcard (null) key are merged into the
\* next poll request any poll loop of the handle sends, and the wildcard
\* entry is then removed (until the next append call).
C7_WildcardParamsMerged ==
    \A c \in DOMAIN trace :
        LET starts == PollStarts(c)
            sends  == PollSends(c)
        IN  /\ \A i \in DOMAIN starts :
                  starts[i][6][1] = "array" =>
                      \A n \in DOMAIN starts[i][6][2] :
                          ContainsPairs(sends[i][4], starts[i][6][2][n])
            /\ (Len(starts) >= 1 /\ "null" \in DOMAIN progressInputParams) =>
                  AppendCount("null") > starts[Len(starts)][8]

\* C8: for one job, at most one poll request is in flight and at most one
\* timer is pending, the cycles are numbered 1, 2, ... without repetition,
\* and the request of cycle n+1 is sent only after the reply of cycle n has
\* arrived and the callbacks of cycle n have run.
C8_PollCyclesSequential ==
    \A c \in DOMAIN trace :
        /\ Cardinality(PollsInFlight(c)) <= 1
        /\ Cardinality(TimersOf(c)) <= 1
        /\ \A i \in DOMAIN PollSends(c) : PollSends(c)[i][3] = i
        /\ \A j \in SendPositions(c) :
              LET n == trace[c][j][3]
              IN  /\ n > 1 =>
                        \E i \in 1..(j - 1) :
                            /\ trace[c][i][1] = "reply"
                            /\ trace[c][i][2] = "progress"
                            /\ trace[c][i][3] = n - 1
                  /\ \A i \in DOMAIN trace[c] :
                        (/\ trace[c][i][1] \in {"progressCallback", "resultCallback"}
                         /\ trace[c][i][2] >= 1
                         /\ trace[c][i][2] < n) => i < j
                  /\ PollsInFlight(c) # {} =>
                        \A r \in PollsInFlight(c) : r.cycle = Len(PollSends(c))

C8_Witness ==
    \E c \in DOMAIN trace :
        /\ Len(PollSends(c)) >= 3
        /\ Len(PollLoopCallbacks(c)) >= 2
        /\ Cardinality(PollsInFlight(c)) = 1

\* a poll cycle that failed: the request failed in transport, or its reply
\* does not report success
FailedCycle(ev) == ev[4][1] = "neterror" \/ ~Truthy(Get(ev[4][3], "success"))

\* C9: a failed poll cycle does not end the poll loop: no callback is called
\* for that cycle and the next cycle is scheduled after the configured
\* interval.
C9_FailedCycleContinues ==
    \A c \in DOMAIN trace :
        \A i \in DOMAIN PollReplyEvents(c) :
            LET ev == PollReplyEvents(c)[i]
            IN  FailedCycle(ev) =>
                    /\ CallbacksOfCycle(c, ev[3]) = <<>>
                    /\ \E j \in DOMAIN trace[c] :
                          trace[c][j] = EvSetTimeout(ev[3] + 1, defaultProgressIntervall)

\* a successful poll reply that reports job_state canceled
ReportsCanceled(ev) ==
    /\ ev[1] = "reply"
    /\ ev[2] = "progress"
    /\ Returned(ev)
    /\ Truthy(Get(ResultOf(ev), "success"))
    /\ Get(ResultOf(ev), "job_state") = Str("canceled")

\* C10: once a successful poll reply reports job_state canceled, the poll
\* loop of that job has ended: no poll request is in flight or sent later, no
\* timer is pending or set later, and the result callback is not called
\* afterwards.
C10_CanceledEndsLoop ==
    \A c \in DOMAIN trace :
        \A i \in DOMAIN trace[c] :
            ReportsCanceled(trace[c][i]) =>
                /\ PollsInFlight(c) = {}
                /\ TimersOf(c) = {}
                /\ \A j \in (i + 1)..Len(trace[c]) :
                      trace[c][j][1] \notin {"checkProgress", "send", "setTimeout", "timer",
                                             "resultCallback"}

C10_Witness ==
    \E c \in DOMAIN trace :
        \E i \in DOMAIN trace[c] : ReportsCanceled(trace[c][i]) /\ Len(PollSends(c)) >= 2

\* C11, as stated: in the poll cycle whose reply reports job_state canceled
\* no callback runs, neither the result callback nor the progress callback.
C11_NoCallbackOnCanceled ==
    \A c \in DOMAIN trace :
        \A i \in DOMAIN PollReplyEvents(c) :
            ReportsCanceled(PollReplyEvents(c)[i]) =>
                CallbacksOfCycle(c, PollReplyEvents(c)[i][3]) = <<>>

\* C11, amended: in the poll cycle whose reply reports job_state canceled the
\* result callback does not run; when the reply carries a progress object
\* the progress callback runs exactly once, with that object's progress,
\* queue_position and estimate and its progress_data, and no other callback
\* runs in that cycle.
C11_CanceledReportsProgress ==
    \A c \in DOMAIN trace :
        \A i \in DOMAIN PollReplyEvents(c) :
            LET ev       == PollReplyEvents(c)[i]
                progress == Get(ResultOf(ev), "progress")
                cbs      == CallbacksOfCycle(c, ev[3])
            IN  ReportsCanceled(ev) =>
                    /\ \A n \in DOMAIN cbs : cbs[n][1] # "resultCallback"
                    /\ progress[1] = "object" =>
                          /\ Len(cbs) = 1
                          /\ cbs[1][1] = "progressCallback"
                          /\ Get(cbs[1][3], "progress") = Get(progress, "progress")
                          /\ Get(cbs[1][3], "queue_position") = Get(progress, "queue_position")
                          /\ Get(cbs[1][3], "estimate") = Get(progress, "estimate")
                          /\ cbs[1][4] = Get(progress, "progress_data")

C11_Witness ==
    \E c \in DOMAIN trace :
        \E i \in DOMAIN PollReplyEvents(c) :
            /\ ReportsCanceled(PollReplyEvents(c)[i])
            /\ Get(ResultOf(PollReplyEvents(c)[i]), "progress")[1] = "object"
            /\ Len(CallbacksOfCycle(c, PollReplyEvents(c)[i][3])) = 1

\* the positions of trace[c] holding a call of the result callback
ResultPositions(c) == {i \in DOMAIN trace[c] : trace[c][i][1] = "resultCallback"}

\* C12: every doAPIRequest call has at most one terminal outcome: the result
\* callback is called at most once for the call, and once it has been called
\* no poll request is in flight or sent, no timer is pending or set, and the
\* progress callback is not called any more for that job.
C12_OneTerminalOutcome ==
    \A c \in DOMAIN trace :
        /\ Cardinality(ResultPositions(c)) <= 1
        /\ \A i \in ResultPositions(c) :
              /\ PollsInFlight(c) = {}
              /\ TimersOf(c) = {}
              /\ \A j \in (i + 1)..Len(trace[c]) :
                    trace[c][j][1] \notin {"checkProgress", "send", "setTimeout", "timer",
                                           "progressCallback", "resultCallback"}

C12_Witness ==
    \E c \in DOMAIN trace :
        /\ ResultPositions(c) # {}
        /\ Len(PollSends(c)) >= 2
        /\ Len(PollLoopCallbacks(c)) >= 2

\* the poll loop of call c has ended: nothing in flight, nothing scheduled
LoopEnded(c) == PollsInFlight(c) = {} /\ TimersOf(c) = {}

\* a successful poll reply after which the loop is to go on: not the final
\* report (done without a progress object) and not a canceled one
GoesOn(ev) ==
    /\ Returned(ev)
    /\ Truthy(Get(ResultOf(ev), "success"))
    /\ ~ReportsDone(ev)
    /\ Get(ResultOf(ev), "job_state") # Str("canceled")

\* every poll reply call c has received reports success, and none canceled
EveryPollSucceeded(c) ==
    \A i \in DOMAIN PollReplyEvents(c) :
        GoesOn(PollReplyEvents(c)[i]) \/ ReportsDone(PollReplyEvents(c)[i])

\* the n-th poll reply of call c has arrived and the loop is to go on
CycleGoesOn(c, n) ==
    IF c \in DOMAIN trace
    THEN IF Len(PollReplyEvents(c)) >= n THEN GoesOn(PollReplyEvents(c)[n]) ELSE FALSE
    ELSE FALSE

\* call c has sent more than n poll requests
CycleFollows(c, n) == IF c \in DOMAIN trace THEN Len(PollSends(c)) > n ELSE FALSE

\* call c has started its poll loop
LoopStarted(c) == IF c \in DOMAIN trace THEN PollSends(c) # <<>> ELSE FALSE

\* the poll loop of call c has ended, with the result callback called if
\* every reply reported success
LoopCompleted(c) ==
    IF c \in DOMAIN trace
    THEN LoopEnded(c) /\ (EveryPollSucceeded(c) => ResultPositions(c) # {})
    ELSE FALSE

\* C13: when every poll request is answered and every timer fires, a poll
\* cycle whose reply reports success and is not the final report is followed
\* by the next cycle's request, and a poll loop that has started ends; if all
\* its replies reported success (the last one then reports done without a
\* progress object), it ends with the result callback called.
C13_PollLoopTerminates ==
    \A c \in 1..MaxCalls :
        /\ \A n \in 1..MaxPolls : CycleGoesOn(c, n) ~> CycleFollows(c, n)
        /\ LoopStarted(c) ~> LoopCompleted(c)

C13_Witness ==
    \E c \in DOMAIN trace :
        /\ Len(PollReplyEvents(c)) >= 2
        /\ EveryPollSucceeded(c)
        /\ GoesOn(PollReplyEvents(c)[1])
        /\ ResultPositions(c) # {}
        /\ LoopEnded(c)

\* the setTimeout calls call c made for cycle n
TimeoutsFor(c, n) == SelectSeq(trace[c], LAMBDA e : e[1] = "setTimeout" /\ e[2] = n)

\* C14: a poll cycle whose reply reports success with job_state running (and
\* a progress object) calls the progress callback exactly once, with the
\* progress, queue_position and estimate of the reply's progress object and
\* its progress_data as second argument, calls no other callback, and
\* schedules the next cycle exactly once, after the configured interval.
C14_RunningCycle ==
    \A c \in DOMAIN trace :
        \A i \in DOMAIN PollReplyEvents(c) :
            LET ev       == PollReplyEvents(c)[i]
                n        == ev[3]
                progress == Get(ResultOf(ev), "progress")
                cbs      == CallbacksOfCycle(c, n)
            IN  ReportsRunning(ev) =>
                    /\ Len(cbs) = 1
                    /\ cbs[1][1] = "progressCallback"
                    /\ Keys(cbs[1][3]) = {"progress", "queue_position", "estimate"}
                    /\ Get(cbs[1][3], "progress") = Get(progress, "progress")
                    /\ Get(cbs[1][3], "queue_position") = Get(progress, "queue_position")
                    /\ Get(cbs[1][3], "estimate") = Get(progress, "estimate")
                    /\ cbs[1][4] = Get(progress, "progress_data")
                    /\ TimeoutsFor(c, n + 1) = <<EvSetTimeout(n + 1, defaultProgressIntervall)>>

C14_Witness ==
    \E c \in DOMAIN trace :
        \E i \in DOMAIN PollReplyEvents(c) :
            /\ ReportsRunning(PollReplyEvents(c)[i])
            /\ PollReplyEvents(c)[i][3] = 2
            /\ Get(CallbacksOfCycle(c, 2)[1][3], "progress") = Num(80)
            /\ Len(PollSends(c)) = 3

\* a step in which cancelRequest was called
CancelStep == cancelCalls' # cancelCalls

\* all that a cancelRequest step changes is the cancellation set, which gains
\* at most one entry
CancelOnlyMarks ==
    /\ net' = net
    /\ timers' = timers
    /\ trace' = trace
    /\ calls' = calls
    /\ progressInputParams' = progressInputParams
    /\ jobsCanceled \subseteq jobsCanceled'
    /\ Cardinality(jobsCanceled' \ jobsCanceled) <= 1

\* a poll request that carried the cancellation flag and was answered with
\* job_state running is followed by the next cycle, whose request carries the
\* flag only if cancelRequest was called again in between
IgnoredCancelKeepsPolling ==
    \A c \in DOMAIN trace :
        \A i \in DOMAIN PollReplyEvents(c) :
            (CancelFlag(PollSends(c)[i][4]) /\ ReportsRunning(PollReplyEvents(c)[i])) =>
                /\ TimeoutsFor(c, i + 1) = <<EvSetTimeout(i + 1, defaultProgressIntervall)>>
                /\ Len(PollSends(c)) > i =>
                      (CancelFlag(PollSends(c)[i + 1][4]) =>
                          \/ PollStarts(c)[i + 1][3] > PollStarts(c)[i][3]
                          \/ PollStarts(c)[i + 1][4] > PollStarts(c)[i][4])

\* C15: cancelRequest only adds an entry to the cancellation set: it sends no
\* request, drops no request in flight and no timer; and when the server
\* answers the flagged poll request with job_state running, the loop keeps
\* polling and does not send the flag again.
C15_CancelNotEnforcedLocally ==
    [][(CancelStep => CancelOnlyMarks) /\ IgnoredCancelKeepsPolling']_vars

C15_Witness ==
    \E c \in DOMAIN trace :
        \E i \in DOMAIN PollReplyEvents(c) :
            /\ CancelFlag(PollSends(c)[i][4])
            /\ ReportsRunning(PollReplyEvents(c)[i])
            /\ Len(PollSends(c)) > i
            /\ ~CancelFlag(PollSends(c)[i + 1][4])
            /\ CancelCount(ToKey(calls[c].jobID)) + CancelCount("null") >= 1

\* the poll cycles started so far on the handle, as <<call, index>>
AllStarts == UNION {{<<c, i>> : i \in DOMAIN PollStarts(c)} : c \in DOMAIN trace}

\* the poll cycles that started when w wildcard cancelRequest calls had been made
StartsAfterWildcard(w) == {s \in AllStarts : PollStarts(s[1])[s[2]][4] = w}

\* the poll request of cycle s carries the cancellation flag
Flagged(s) == CancelFlag(PollSends(s[1])[s[2]][4])

\* cancelRequest was called for the job itself since its previous poll cycle
OwnCancelPending(s) ==
    PollStarts(s[1])[s[2]][3] >
        (IF s[2] = 1 THEN 0 ELSE PollStarts(s[1])[s[2] - 1][3])

\* C16: a wildcard cancelRequest is consumed by the first poll cycle that
\* runs after it, whichever job it belongs to: of the poll requests built
\* since that call, one carries the cancellation flag, and no other does
\* (unless cancelRequest was called for its own job); the wildcard entry
\* stays in the cancellation set only as long as no poll cycle has run.
C16_WildcardCancelConsumedOnce ==
    \A w \in 1..CancelCount("null") :
        LET after == StartsAfterWildcard(w) IN
        /\ after # {} => \E s \in after : Flagged(s)
        /\ Cardinality({s \in after : Flagged(s) /\ ~OwnCancelPending(s)}) <= 1
        /\ (w = CancelCount("null")) => (("null" \in jobsCanceled) <=> (after = {}))

C16_Witness ==
    \E s, t \in StartsAfterWildcard(1) :
        /\ s[1] # t[1]
        /\ Flagged(s)
        /\ ~Flagged(t)
        /\ ~OwnCancelPending(s)
        /\ ~OwnCancelPending(t)

\* the JSON text of the structured values of ParamValues, written out
ExpectedJson(v) ==
    CASE v = Obj(<<>>) -> <<"{", "}">>
      [] v = Obj(<< <<"x", Num(1)>>, <<"y", Null>> >>) ->
            <<"{", "\"", "x", "\"", ":", "1", ",", "\"", "y", "\"", ":", "null", "}">>
      [] v = Arr(<<>>) -> <<"[", "]">>
      [] v = Arr(<< Num(1), Str("a"), Obj(<< <<"z", Bool(TRUE)>> >>) >>) ->
            <<"[", "1", ",", "\"", "a", "\"", ",",
              "{", "\"", "z", "\"", ":", "true", "}", "]">>
      [] OTHER -> <<"?">>

\* the property names doAPIRequest sets itself after stringifyObjects
SetByDoAPIRequest == {"client_session_auth_key", "key", "wait_for_result"}

\* C17: stringifyObjects gives an object with the own property names of its
\* input, in the same order; a value that is an object or an array becomes
\* the string of its JSON text, any other value (null and undefined
\* included) is carried over unchanged; and the submission request carries
\* these values.
C17_StringifyObjects ==
    \A c \in DOMAIN calls :
        LET input == calls[c].params
            out   == StringifyObjects(input)
            sent  == trace[c][1][4]
        IN  /\ out[1] = "object"
            /\ [i \in DOMAIN OwnProps(out) |-> OwnProps(out)[i][1]]
                  = [i \in DOMAIN OwnProps(input) |-> OwnProps(input)[i][1]]
            /\ \A k \in Keys(input) :
                  /\ Get(input, k)[1] \in {"object", "array"} =>
                        Get(out, k) = StrOf(ExpectedJson(Get(input, k)))
                  /\ Get(input, k)[1] \notin {"object", "array"} =>
                        Get(out, k) = Get(input, k)
                  /\ k \notin SetByDoAPIRequest => Get(sent, k) = Get(out, k)

C17_Witness ==
    \E c \in DOMAIN calls :
        /\ Get(calls[c].params, "prompt") = Null
        /\ Get(calls[c].params, "context")[1] = "array"
        /\ Len(Get(calls[c].params, "context")[2]) = 3
        /\ Get(trace[c][1][4], "prompt") = Null
        /\ Get(trace[c][1][4], "context")[1] = "string"
        /\ Len(CallReplyEvents(c)) = 1

\* the submission request of call c
SubmissionSent(c) == trace[c][1]

\* C18: the wait_for_result field of the submission request is true exactly
\* when doAPIRequest was given no progress callback and false exactly when it
\* was given one, whatever wait_for_result the caller's own parameters hold.
C18_WaitForResult ==
    \A c \in DOMAIN trace :
        /\ SubmissionSent(c)[1] = "send"
        /\ SubmissionSent(c)[2] = "call"
        /\ Get(SubmissionSent(c)[4], "wait_for_result") = Bool(~calls[c].args.progressCallback)

C18_Witness ==
    \E c \in DOMAIN trace :
        /\ calls[c].args.progressCallback
        /\ Get(calls[c].params, "wait_for_result") = Bool(TRUE)
        /\ Get(SubmissionSent(c)[4], "wait_for_result") = Bool(FALSE)
        /\ Len(PollSends(c)) >= 1

\* the submission of call c met an error: the request failed in transport,
\* or the HTTP status is not a success, or the body reports success false
SubmissionError(c) ==
    /\ Len(CallReplyEvents(c)) = 1
    /\ LET reply == CallReplyEvents(c)[1][4]
       IN  \/ reply[1] = "neterror"
           \/ reply[2] \notin 200..299
           \/ ~Truthy(Get(reply[3], "success"))

\* C19: on a handle that does not raise, an error during the submission
\* call, a transport failure included, ends the call with exactly one call
\* of the result callback, with an error object; the submission request is
\* sent once and no poll loop starts.
C19_SubmissionErrorsReported ==
    \A c \in DOMAIN trace :
        (~raiseException /\ SubmissionError(c)) =>
            /\ Len(Callbacks(c)) = 1
            /\ Callbacks(c)[1][1] = "resultCallback"
            /\ Callbacks(c)[1][3][1] = "object"
            /\ ~Truthy(Get(Callbacks(c)[1][3], "success"))
            /\ Len(SelectSeq(trace[c], LAMBDA e : e[1] = "send")) = 1
            /\ PollStarts(c) = <<>>
            /\ TimersOf(c) = {}

\* a reply event whose HTTP status is not a success
HttpFailure(ev) == ev[1] = "reply" /\ ev[4][1] = "http" /\ ev[4][2] \notin 200..299

\* the error field fetchAsync is to return for the error field of the body
ExpectedError(error) ==
    IF error = Arr(<<Str("e1"), Str("e2")>>) THEN StrOf(<<"e1", ";", "e2">>) ELSE error

\* C20: on a handle that does not raise, when the HTTP status is not a
\* success fetchAsync throws nothing and returns the body of the response,
\* with an error that is a list of strings replaced by the strings joined
\* with ";", an error that is one string left as it is, and error_code set to
\* the HTTP status.
C20_ErrorPayloadShape ==
    \A c \in DOMAIN trace :
        \A i \in DOMAIN trace[c] :
            LET ev   == trace[c][i]
                body == ev[4][3]
                out  == ResultOf(ev)
            IN  (~raiseException /\ HttpFailure(ev)) =>
                    /\ Returned(ev)
                    /\ Keys(out) = Keys(body) \cup {"error_code"}
                    /\ Get(out, "error_code") = Num(ev[4][2])
                    /\ Get(out, "error") = ExpectedError(Get(body, "error"))
                    /\ \A k \in Keys(body) \ {"error", "error_code"} : Get(out, k) = Get(body, k)

\* the submission of call c was answered with an HTTP success status
SubmissionHttpSuccess(c) ==
    /\ Len(CallReplyEvents(c)) = 1
    /\ CallReplyEvents(c)[1][4][1] = "http"
    /\ CallReplyEvents(c)[1][4][2] \in 200..299

\* C21: on a handle with raiseException set, a submission answered with an
\* HTTP success status is not raised as an error: fetchAsync returns the
\* parsed body, which goes to the result callback, or, with a progress
\* callback and success true, starts the poll loop after the initial
\* progress update.
C21_SuccessNotRaised ==
    \A c \in DOMAIN trace :
        (raiseException /\ SubmissionHttpSuccess(c)) =>
            LET ev   == CallReplyEvents(c)[1]
                body == ev[4][3]
            IN  /\ Returned(ev)
                /\ ResultOf(ev) = body
                /\ IF calls[c].args.progressCallback /\ Truthy(Get(body, "success"))
                   THEN /\ Len(Callbacks(c)) >= 1
                        /\ Callbacks(c)[1] =
                              EvProgressCallback(0, InitialProgressInfo(Get(body, "job_id")), Null)
                        /\ calls[c].jobID = Get(body, "job_id")
                   ELSE Callbacks(c) = <<EvResultCallback(0, body)>>

\* the number of append_progressInputParams calls made for call c's job
\* before its i-th poll cycle started
OwnAppendsBefore(c, i) == IF i = 0 THEN 0 ELSE PollStarts(c)[i][7]

\* C22: the entries queued for a job by several append_progressInputParams
\* calls are held as one sequence in call order; the job's next poll cycle
\* takes the whole sequence at once: its request carries every queued entry,
\* entry n as the value of property n-1, a poll request built when nothing is
\* queued for the job carries none, and after the cycle the job has no
\* queued entry until the next append call.
C22_QueueConsumedAtOnce ==
    \A c \in DOMAIN trace :
        LET starts == PollStarts(c)
            sends  == PollSends(c)
            key    == ToKey(calls[c].jobID)
        IN  /\ \A i \in DOMAIN starts :
                  LET queued == starts[i][5] IN
                  /\ queued[1] = "array" =>
                        /\ Len(queued[2]) = starts[i][7] - OwnAppendsBefore(c, i - 1)
                        /\ \A n \in DOMAIN queued[2] :
                              Get(sends[i][4], ToString(n - 1)) = queued[2][n]
                        /\ \A n \in DOMAIN queued[2] :
                              queued[2][n] = ExtraParams(1) => n = 1
                  /\ queued = Undefined =>
                        /\ starts[i][7] = OwnAppendsBefore(c, i - 1)
                        /\ Keys(sends[i][4]) \subseteq PollRequestKeys
            /\ (Len(starts) >= 1 /\ key \in DOMAIN progressInputParams) =>
                  Len(progressInputParams[key]) = AppendCount(key) - starts[Len(starts)][7]
            /\ (Len(starts) >= 1 /\ key \notin DOMAIN progressInputParams) =>
                  AppendCount(key) = starts[Len(starts)][7]

C22_Witness ==
    \E c \in DOMAIN trace :
        \E i \in DOMAIN PollStarts(c) :
            /\ PollStarts(c)[i][5] = Arr(<<ExtraParams(1), ExtraParams(2)>>)
            /\ Get(PollSends(c)[i][4], "0") = ExtraParams(1)
            /\ Get(PollSends(c)[i][4], "1") = ExtraParams(2)
            /\ Len(PollSends(c)) > i
            /\ Keys(PollSends(c)[i + 1][4]) \subseteq PollRequestKeys

\* the last event of the initAPIKey history after a step
LastKeyEvent == keyTrace'[Len(keyTrace')]

\* a step that changes the API key is an initAPIKey call given a key that is
\* not null, and the key becomes the one given
KeyChangeIsInit ==
    /\ Len(keyTrace') = Len(keyTrace) + 1
    /\ LastKeyEvent[1] = "initAPIKey"
    /\ LastKeyEvent[3] \notin {Null, Undefined}
    /\ apiKey' = LastKeyEvent[3]

\* C23: no step of the handle (doAPIRequest, a poll cycle, cancelRequest,
\* append_progressInputParams, stringifyObjects within them, initAPIKey and
\* its reply) changes the endpoint name, the server base URL, the polling
\* interval or the raise flag, and the API key changes only in an initAPIKey
\* call given a non-null key.
C23_ConfigurationStable ==
    [][/\ endpointName' = endpointName
       /\ apiServerUrl' = apiServerUrl
       /\ defaultProgressIntervall' = defaultProgressIntervall
       /\ raiseException' = raiseException
       /\ (apiKey' # apiKey => KeyChangeIsInit)]_vars

C23_Witness ==
    /\ apiKey = Str("K3")
    /\ \E i \in DOMAIN keyTrace : keyTrace[i][1] = "validated"
    /\ userOps >= 1
    /\ \E c \in DOMAIN trace :
        /\ Len(PollReplyEvents(c)) >= 1
        /\ Len(Callbacks(c)) >= 1

\* C24: every request initAPIKey sends to validate_key uses the GET method
\* and has no body.
C24_ValidateKeyIsGet ==
    \A i \in DOMAIN keyTrace :
        keyTrace[i][1] = "initAPIKey" =>
            /\ keyTrace[i][4].method = "GET"
            /\ FetchBody(keyTrace[i][4]) = Null

\* C25: every poll request of a call carries the API key its submission
\* request carried.
C25_PollsCarrySubmissionKey ==
    \A c \in DOMAIN trace :
        \A i \in DOMAIN PollSends(c) :
            Get(PollSends(c)[i][4], "key") = Get(SubmissionSent(c)[4], "key")

\* the number of poll cycles call c has started, in a sequence of its events
StartsIn(events) == Len(SelectSeq(events, LAMBDA e : e[1] = "checkProgress"))

\* the step starts a poll cycle of call c
StartsCycle(c) ==
    StartsIn(trace'[c]) > (IF c \in DOMAIN trace THEN StartsIn(trace[c]) ELSE 0)

\* the step removes the entries of job a and of the wildcard from both maps
\* and leaves every other job's entry as it was
OnlyOwnAndWildcardRemoved(a) ==
    /\ jobsCanceled' = jobsCanceled \ {a, "null"}
    /\ DOMAIN progressInputParams' = DOMAIN progressInputParams \ {a, "null"}
    /\ \A b \in DOMAIN progressInputParams' : progressInputParams'[b] = progressInputParams[b]

\* C26: a step that starts a poll cycle of a job removes from the
\* cancellation set and from the queued parameters that job's entries and the
\* wildcard entries, and leaves the entries of every other job untouched.
C26_OtherJobsUntouched ==
    [][\A c \in DOMAIN trace' :
          StartsCycle(c) => OnlyOwnAndWildcardRemoved(ToKey(calls'[c].jobID))]_vars

C26_Witness ==
    /\ QueuedFor(progressInputParams, JobIdOf(2)) = Arr(<<ExtraParams(1)>>)
    /\ "null" \notin jobsCanceled
    /\ \E c \in DOMAIN trace :
        /\ calls[c].jobID = JobIdOf(1)
        /\ \E i \in DOMAIN PollStarts(c) :
            /\ PollStarts(c)[i][4] = 1
            /\ PollStarts(c)[i][8] + AppendCount(ToKey(JobIdOf(2))) = 1
            /\ CancelFlag(PollSends(c)[i][4])

\* C27: after doAPIRequest, and through everything that follows it, the
\* parameter object the caller passed holds what it held when it was passed:
\* the key, wait_for_result and the JSON-encoded values are in the request
\* only.
C27_CallersParamsUnchanged ==
    \A c \in DOMAIN calls : calls[c].params = calls[c].args.params

C27_Witness ==
    \E c \in DOMAIN calls :
        /\ Len(CallReplyEvents(c)) = 1
        /\ Len(PollSends(c)) >= 1
        /\ calls[c].args.params = NestedParams
        /\ calls[c].params = NestedParams
        /\ Get(SubmissionSent(c)[4], "key") # Undefined
        /\ Get(SubmissionSent(c)[4], "wait_for_result") = Bool(FALSE)
        /\ \E k \in Keys(NestedParams) :
            /\ IsStructured(Get(NestedParams, k))
            /\ Get(SubmissionSent(c)[4], k)[1] = "string"


====
